---- MODULE Spec2Model ----
(***************************************************************************)
(* Model of app.py, the hero / og:image scraper: the fetcher, the two      *)
(* extraction heuristics, the sequential scrape loop of main() and the     *)
(* ZIP packager build_zip().                                               *)
(*                                                                         *)
(* A Python str is a sequence of one-character strings, so that prefix,    *)
(* substring, strip() and re.sub() are computed character by character.    *)
(* An Optional value (str | None) is a record [some, v]; None is           *)
(* [some |-> FALSE, v |-> <<>>].                                           *)
(***************************************************************************)
EXTENDS Integers, Sequences, FiniteSets, TLC

VARIABLES
    pc,            \* position of the driven function
    raw_urls,      \* main: the stripped non-blank input lines
    rate_limit,    \* main: the slider value, in tenths of a second
    valid_urls,    \* main: the normalized URLs
    results,       \* main: the accumulating result list
    idx,           \* main: loop index of the scrape loop (0-based)
    log,           \* every requests.get and time.sleep call made so far
    image_urls,    \* build_zip: the (img_url, page_url, kind) task list
    zf,            \* build_zip: the entries written to the ZipFile
    zidx,          \* build_zip: loop index of the download loop (0-based)
    zip_bytes,     \* build_zip: the returned value
    soup,          \* extract_*: the parsed document
    container,     \* extract_hero_image: strategy 1's container (0 = None)
    img,           \* extract_hero_image: strategy 1's img (0 = None)
    hero_image,    \* extract_hero_image: the returned value
    og_image,      \* extract_og_image: the returned value
    img_url,       \* _safe_filename: argument
    page_url,      \* _safe_filename: argument
    suffix,        \* _safe_filename: argument
    fname          \* _safe_filename: the returned value

vars == <<pc, raw_urls, rate_limit, valid_urls, results, idx, log,
          image_urls, zf, zidx, zip_bytes, soup, container, img, hero_image,
          og_image, img_url, page_url, suffix, fname>>

mainVars == <<raw_urls, rate_limit, valid_urls, results, idx, log,
              image_urls, zf, zidx, zip_bytes>>
extractVars == <<soup, container, img, hero_image, og_image>>
nameVars == <<img_url, page_url, suffix, fname>>

---------------------------------------------------------------------------
(* Bounds of the model. *)

\* longest input list of main()
MaxUrls == 3
\* most nodes in a document handed to extract_hero_image
MaxNodes == 3
\* most <meta> elements in a document handed to extract_og_image
MaxMetas == 2
\* longest last path segment of a page URL handed to _safe_filename
MaxSeg == 2

---------------------------------------------------------------------------
(* Python values. *)

None == [some |-> FALSE, v |-> <<>>]
Some(x) == [some |-> TRUE, v |-> x]

\* bool(x) of an Optional[str]: None and "" are falsy
Truthy(o) == o.some /\ o.v # <<>>

\* str.startswith
startswith(s, p) == Len(s) >= Len(p) /\ SubSeq(s, 1, Len(p)) = p

\* the `in` operator on two strings: substring test
IsSubstr(p, s) ==
    \E i \in 0..(Len(s) - Len(p)) : SubSeq(s, i + 1, i + Len(p)) = p

Whitespace == {" ", "\t", "\n"}

\* str.strip(): drop leading and trailing whitespace
strip(s) ==
    LET keep == {i \in 1..Len(s) : s[i] \notin Whitespace}
        lo == CHOOSE i \in keep : \A j \in keep : i <= j
        hi == CHOOSE i \in keep : \A j \in keep : i >= j
    IN IF keep = {} THEN <<>> ELSE SubSeq(s, lo, hi)

\* str.find(c, from): first position >= from holding c, 0 when there is none
\* (positions are 1-based here)
find(s, c, from) ==
    LET hits == {i \in from..Len(s) : s[i] = c}
    IN IF hits = {} THEN 0 ELSE CHOOSE i \in hits : \A j \in hits : i <= j

\* str.rfind(c): last position holding c, 0 when there is none
rfind(s, c) ==
    LET hits == {i \in 1..Len(s) : s[i] = c}
    IN IF hits = {} THEN 0 ELSE CHOOSE i \in hits : \A j \in hits : i >= j

\* " ".join(list)
RECURSIVE join(_)
join(l) ==
    IF l = <<>> THEN <<>>
    ELSE IF Len(l) = 1 THEN l[1]
    ELSE l[1] \o <<" ">> \o join(Tail(l))

AsciiLower == {"a", "b", "c", "d", "e", "f", "g", "h", "i", "j", "k", "l", "m",
               "n", "o", "p", "q", "r", "s", "t", "u", "v", "w", "x", "y", "z"}
AsciiUpper == {"A", "B", "C", "D", "E", "F", "G", "H", "I", "J", "K", "L", "M",
               "N", "O", "P", "Q", "R", "S", "T", "U", "V", "W", "X", "Y", "Z"}
AsciiDigit == {"0", "1", "2", "3", "4", "5", "6", "7", "8", "9"}
\* letters outside ASCII that occur in the model's inputs
UnicodeLetter == {"é", "ß"}

---------------------------------------------------------------------------
(* The parsed document.  A soup is the sequence of its elements in         *)
(* document order (preorder), each with its depth in the tree: the         *)
(* descendants of element i are the elements that follow it up to the      *)
(* first one that is not deeper than i.  class is the token list bs4       *)
(* builds from the class attribute (None without the attribute).           *)

Div(d, cls) ==
    [tag |-> "div", depth |-> d, class |-> cls, src |-> None,
     property |-> None, content |-> None]
Img(d, cls, s) ==
    [tag |-> "img", depth |-> d, class |-> cls, src |-> s,
     property |-> None, content |-> None]
Meta(d, p, c) ==
    [tag |-> "meta", depth |-> d, class |-> None, src |-> None,
     property |-> p, content |-> c]

Descendants(doc, i) ==
    {j \in (i + 1)..Len(doc) :
        \A k \in (i + 1)..j : doc[k].depth > doc[i].depth}

MinOf(S) == CHOOSE i \in S : \A j \in S : i <= j

required_classes ==
    <<<<"s", "_", "c", "o", "l">>, <<"c", "o", "l", "-", "m", "d", "-", "6">>, <<"d", "-", "m", "d", "-", "f", "l", "e", "x">>, <<"f", "l", "e", "x", "-", "c", "o", "l", "u", "m", "n">>, <<"a", "l", "i", "g", "n", "-", "i", "t", "e", "m", "s", "-", "m", "d", "-", "e", "n", "d">>>>

\* lambda c: c and all(rc in c for rc in required_classes)
IsContainerClass(c) ==
    \A r \in 1..Len(required_classes) : IsSubstr(required_classes[r], c)

\* lambda c: c and "no_lazy" in c
IsNoLazyClass(c) == IsSubstr(<<"n", "o", "_", "l", "a", "z", "y">>, c)

\* lambda c: c and "s_col" in c
IsSColClass(c) == IsSubstr(<<"s", "_", "c", "o", "l">>, c)

\* the three functions passed as class_, by name
CallClassFn(fn, c) ==
    CASE fn = "container" -> IsContainerClass(c)
      [] fn = "no_lazy" -> IsNoLazyClass(c)
      [] fn = "s_col" -> IsSColClass(c)

\* bs4 matching of a multi-valued attribute against a function: the
\* function is called on each token and then on the tokens joined by a
\* space; a missing attribute is matched as None, which `c and ...` rejects
ClassMatches(fn, cls) ==
    /\ cls.some
    /\ \/ \E t \in 1..Len(cls.v) : cls.v[t] # <<>> /\ CallClassFn(fn, cls.v[t])
       \/ join(cls.v) # <<>> /\ CallClassFn(fn, join(cls.v))

\* Tag.find(name, class_=fn) below element `root` (0: the whole soup):
\* the first matching element in document order, 0 for None
FindFirst(doc, root, name, fn) ==
    LET scope == IF root = 0 THEN 1..Len(doc) ELSE Descendants(doc, root)
        hits == {i \in scope : doc[i].tag = name /\ ClassMatches(fn, doc[i].class)}
    IN IF hits = {} THEN 0 ELSE MinOf(hits)

\* strategy 1: the container, and the img found in it (0 = None)
Strategy1Container(doc) == FindFirst(doc, 0, "div", "container")
Strategy1Img(doc) ==
    LET c == Strategy1Container(doc)
    IN IF c = 0 THEN 0 ELSE FindFirst(doc, c, "img", "no_lazy")

\* strategy 2: every div matching s_col, in document order; the first one
\* whose first no_lazy img has a src decides
Strategy2(doc) ==
    LET divs == {d \in 1..Len(doc) :
                    /\ doc[d].tag = "div"
                    /\ ClassMatches("s_col", doc[d].class)
                    /\ LET i == FindFirst(doc, d, "img", "no_lazy")
                       IN i # 0 /\ Truthy(doc[i].src)}
    IN IF divs = {} THEN None
       ELSE Some(strip(doc[FindFirst(doc, MinOf(divs), "img", "no_lazy")].src.v))

\* a plausible slip: the fallback is skipped once a container was found
extract_hero_image_container_decides(doc) ==
    LET i == Strategy1Img(doc)
    IN IF Strategy1Container(doc) # 0
       THEN IF i # 0 /\ Truthy(doc[i].src) THEN Some(strip(doc[i].src.v)) ELSE None
       ELSE Strategy2(doc)

extract_hero_image(doc) ==
    LET i == Strategy1Img(doc)
    IN IF Strategy1Container(doc) # 0 /\ i # 0 /\ Truthy(doc[i].src)
       THEN Some(strip(doc[i].src.v))
       ELSE Strategy2(doc)

\* soup.find("meta", property="og:image"): first meta whose property
\* attribute equals og:image, 0 for None
FindOgMeta(doc) ==
    LET hits == {i \in 1..Len(doc) :
                    /\ doc[i].tag = "meta"
                    /\ doc[i].property = Some(<<"o", "g", ":", "i", "m", "a", "g", "e">>)}
    IN IF hits = {} THEN 0 ELSE MinOf(hits)

extract_og_image(doc) ==
    LET tag == FindOgMeta(doc)
    IN IF tag # 0 /\ Truthy(doc[tag].content)
       THEN Some(strip(doc[tag].content.v))
       ELSE None

---------------------------------------------------------------------------
(* URLs and file names. *)

LowerSeq == <<"a", "b", "c", "d", "e", "f", "g", "h", "i", "j", "k", "l", "m", "n", "o", "p", "q", "r", "s", "t", "u", "v", "w", "x", "y", "z">>
UpperSeq == <<"A", "B", "C", "D", "E", "F", "G", "H", "I", "J", "K", "L", "M", "N", "O", "P", "Q", "R", "S", "T", "U", "V", "W", "X", "Y", "Z">>
SchemeChars == AsciiLower \cup AsciiUpper \cup AsciiDigit \cup {"+", "-", "."}

\* urllib.parse.urlsplit, scheme: the text before the first ":" when it
\* starts with an ASCII letter and holds scheme characters only
SchemeEnd(url) ==
    LET i == find(url, ":", 1)
    IN IF /\ i > 1
          /\ url[1] \in AsciiLower \cup AsciiUpper
          /\ \A k \in 1..(i - 1) : url[k] \in SchemeChars
       THEN i ELSE 0

\* str.lower() on ASCII letters
LowerChar(c) ==
    IF c \in AsciiUpper
    THEN LET k == CHOOSE n \in 1..26 : UpperSeq[n] = c IN LowerSeq[k]
    ELSE c

Scheme(url) ==
    IF SchemeEnd(url) = 0 THEN <<>>
    ELSE [k \in 1..(SchemeEnd(url) - 1) |-> LowerChar(url[k])]
AfterScheme(url) == SubSeq(url, SchemeEnd(url) + 1, Len(url))

\* first position >= from of any of the characters cs, Len(s)+1 when none
FirstOf(s, cs, from) ==
    LET hits == {i \in from..Len(s) : s[i] \in cs}
    IN IF hits = {} THEN Len(s) + 1 ELSE MinOf(hits)

\* urlsplit, netloc: after "//", up to the first of / ? #
AfterNetloc(rest) ==
    IF startswith(rest, <<"/", "/">>)
    THEN SubSeq(rest, FirstOf(rest, {"/", "?", "#"}, 3), Len(rest))
    ELSE rest

\* urlparse, _splitparams: the params after the first ";" of the last
\* segment are cut off
SplitParams(p) ==
    LET i == find(p, ";", IF rfind(p, "/") = 0 THEN 1 ELSE rfind(p, "/"))
    IN IF i = 0 THEN p ELSE SubSeq(p, 1, i - 1)

\* the schemes of urllib.parse.uses_params that a page or image URL can
\* carry here ("" is the URL without a scheme)
uses_params == {<<>>, <<"h", "t", "t", "p">>, <<"h", "t", "t", "p", "s">>, <<"f", "t", "p">>, <<"s", "f", "t", "p">>}

\* urlparse(url).path
UrlPath(url) ==
    LET rest == AfterNetloc(AfterScheme(url))
        noFrag == SubSeq(rest, 1, FirstOf(rest, {"#"}, 1) - 1)
        noQuery == SubSeq(noFrag, 1, FirstOf(noFrag, {"?"}, 1) - 1)
    IN IF Scheme(url) \in uses_params THEN SplitParams(noQuery) ELSE noQuery

\* the parts of a path between "/"
RECURSIVE SplitSlash(_)
SplitSlash(p) ==
    LET i == find(p, "/", 1)
    IN IF i = 0 THEN <<p>>
       ELSE <<SubSeq(p, 1, i - 1)>> \o SplitSlash(SubSeq(p, i + 1, Len(p)))

\* PurePosixPath(p).name: the last part, empty parts and "." parts dropped
PathName(p) ==
    LET parts == SelectSeq(SplitSlash(p), LAMBDA x : x # <<>> /\ x # <<".">>)
    IN IF parts = <<>> THEN <<>> ELSE parts[Len(parts)]

\* \w of a str pattern: Unicode word characters (letters and digits of any
\* script, and the underscore)
IsWordChar(c) ==
    c \in AsciiLower \cup AsciiUpper \cup AsciiDigit \cup UnicodeLetter \cup {"_"}

\* re.sub(r"[^\w\-]", "_", s)
SubNonWord(s) ==
    IF s = <<>> THEN <<>>
    ELSE [i \in 1..Len(s) |-> IF IsWordChar(s[i]) \/ s[i] = "-" THEN s[i] ELSE "_"]

\* x or default
OrDefault(x, d) == IF x = <<>> THEN d ELSE x

_safe_filename(imgUrl, pageUrl, kind) ==
    LET page_slug == SubNonWord(OrDefault(PathName(UrlPath(pageUrl)), <<"p", "a", "g", "e">>))
        img_name == OrDefault(PathName(UrlPath(imgUrl)), <<"i", "m", "a", "g", "e">>)
    IN page_slug \o <<"_", "_">> \o kind \o <<"_", "_">> \o img_name

---------------------------------------------------------------------------
(* The fetcher and the scrape of one URL. *)

NoResponse == [some |-> FALSE, soup |-> <<>>]
Response(doc) == [some |-> TRUE, soup |-> doc]

\* requests accepts http:// and https:// URLs only; anything else raises
\* MissingSchema or InvalidSchema, both RequestException
HasScheme(url) == startswith(url, <<"h", "t", "t", "p", ":", "/", "/">>) \/ startswith(url, <<"h", "t", "t", "p", "s", ":", "/", "/">>)

FiveTokens == Some(required_classes)

\* the documents the modelled site serves
PageNone == <<Div(0, None)>>
PageOg == <<Meta(0, Some(<<"o", "g", ":", "i", "m", "a", "g", "e">>), Some(<<" ", "h", "t", "t", "p", "s", ":", "/", "/", "c", ".", "i", "o", "/", "o", ".", "p", "n", "g", " ">>))>>
PageBoth ==
    <<Meta(0, Some(<<"o", "g", ":", "i", "m", "a", "g", "e">>), Some(<<"h", "t", "t", "p", "s", ":", "/", "/", "c", ".", "i", "o", "/", "o", ".", "p", "n", "g">>)),
      Div(0, FiveTokens),
      Img(1, Some(<<<<"n", "o", "_", "l", "a", "z", "y">>, <<"d", "-", "n", "o", "n", "e">>>>), Some(<<"h", "t", "t", "p", "s", ":", "/", "/", "c", ".", "i", "o", "/", "h", ".", "j", "p", "g">>))>>
PageBlank ==
    <<Meta(0, Some(<<"o", "g", ":", "i", "m", "a", "g", "e">>), Some(<<" ", " ">>)),
      Div(0, Some(<<<<"s", "_", "c", "o", "l">>>>)),
      Img(1, Some(<<<<"n", "o", "_", "l", "a", "z", "y">>>>), Some(<<" ">>))>>
Pages == {PageNone, PageOg, PageBoth, PageBlank}

\* fetch_page(url): the Response, or None on any RequestException
FetchOutcomes(url) ==
    IF HasScheme(url) THEN {NoResponse} \cup {Response(p) : p \in Pages}
    ELSE {NoResponse}

\* a plausible slip: the early return forgets to set the status
scrape_images_keeps_pending(url, resp) ==
    IF ~resp.some
    THEN [url |-> url, hero_image |-> None, og_image |-> None, status |-> "pending"]
    ELSE [url |-> url,
          hero_image |-> extract_hero_image(resp.soup),
          og_image |-> extract_og_image(resp.soup),
          status |-> "ok"]

\* scrape_images(url), given what fetch_page returned
scrape_images(url, resp) ==
    IF ~resp.some
    THEN [url |-> url, hero_image |-> None, og_image |-> None, status |-> "error"]
    ELSE [url |-> url,
          hero_image |-> extract_hero_image(resp.soup),
          og_image |-> extract_og_image(resp.soup),
          status |-> "ok"]

\* main, lines 214-217: the scheme is added to a URL not starting with http
Normalize(u) == IF ~startswith(u, <<"h", "t", "t", "p">>) THEN <<"h", "t", "t", "p", "s", ":", "/", "/">> \o u ELSE u

\* a plausible slip: the pause is taken after the last URL too
NeedsPause_always(i, total) == TRUE

\* main, line 234: no pause after the last URL
NeedsPause(i, total) == i < total - 1

GetEvent(u, succeeded) == [op |-> "get", url |-> u, ok |-> succeeded, secs |-> 0]
SleepEvent(tenths) == [op |-> "sleep", url |-> <<>>, ok |-> TRUE, secs |-> tenths]

\* RATE_LIMIT_SECONDS, in tenths of a second
RATE_LIMIT_TENTHS == 15
\* the slider's largest value, in tenths of a second
SLIDER_MAX_TENTHS == 50
\* time.sleep(0.5) of build_zip, in tenths of a second
IMAGE_DELAY_TENTHS == 5

\* build_zip, lines 131-136: hero task then og task of each result
RECURSIVE ImageTasks(_)
ImageTasks(rs) ==
    IF rs = <<>> THEN <<>>
    ELSE LET r == rs[1]
         IN (IF Truthy(r.hero_image)
             THEN <<[img_url |-> r.hero_image.v, page_url |-> r.url, kind |-> <<"h", "e", "r", "o">>]>>
             ELSE <<>>)
            \o (IF Truthy(r.og_image)
                THEN <<[img_url |-> r.og_image.v, page_url |-> r.url, kind |-> <<"o", "g">>]>>
                ELSE <<>>)
            \o ImageTasks(Tail(rs))

\* a plausible slip: an archive is returned for an empty task list too
NoTasks_never(tasks) == FALSE

\* build_zip, line 138: `if not image_urls`
NoTasks(tasks) == tasks = <<>>

NoZip == [some |-> FALSE, entries |-> <<>>]
ZipOf(entries) == [some |-> TRUE, entries |-> entries]

---------------------------------------------------------------------------
(* main(): the scrape loop, then build_zip on its results. *)

\* the lines a user may paste
RawUrlChoices == {<<"h", "t", "t", "p", ":", "/", "/", "x", ".", "i", "o", "/", "a", ".", "b">>, <<"x", ".", "i", "o", "/", "q">>, <<"h", "t", "t", "p", "b", "i", "n", ".", "o", "r", "g">>}
\* the slider values a run may use
Delays == {RATE_LIMIT_TENTHS, SLIDER_MAX_TENTHS}

SeqsUpTo(S, lo, hi) == UNION {[1..n -> S] : n \in lo..hi}

Init ==
    /\ pc = "validate"
    /\ raw_urls \in SeqsUpTo(RawUrlChoices, 1, MaxUrls)
    /\ rate_limit \in Delays
    /\ valid_urls = <<>>
    /\ results = <<>> /\ idx = 0 /\ log = <<>>
    /\ image_urls = <<>> /\ zf = <<>> /\ zidx = 0 /\ zip_bytes = NoZip
    /\ soup = <<>> /\ container = 0 /\ img = 0
    /\ hero_image = None /\ og_image = None
    /\ img_url = <<>> /\ page_url = <<>> /\ suffix = <<>> /\ fname = <<>>

\* main, lines 212-223
ValidateUrls ==
    /\ pc = "validate"
    /\ valid_urls' = [i \in 1..Len(raw_urls) |-> Normalize(raw_urls[i])]
    /\ results' = <<>>
    /\ idx' = 0
    /\ pc' = "scrape"
    /\ UNCHANGED <<raw_urls, rate_limit, log, image_urls, zf, zidx, zip_bytes>>
    /\ UNCHANGED <<extractVars, nameVars>>

\* a plausible slip: a failed page is not recorded
ScrapeNext_drops_failures ==
    /\ pc = "scrape"
    /\ idx < Len(valid_urls)
    /\ LET total == Len(valid_urls)
           url == valid_urls[idx + 1]
       IN \E resp \in FetchOutcomes(url) :
            /\ results' = IF resp.some THEN Append(results, scrape_images(url, resp))
                          ELSE results
            /\ log' = log \o <<GetEvent(url, resp.some)>>
                          \o (IF NeedsPause(idx, total)
                              THEN <<SleepEvent(rate_limit)>> ELSE <<>>)
            /\ idx' = idx + 1
            /\ pc' = IF idx + 1 = total THEN "scraped" ELSE "scrape"
    /\ UNCHANGED <<raw_urls, rate_limit, valid_urls, image_urls, zf, zidx, zip_bytes>>
    /\ UNCHANGED <<extractVars, nameVars>>

\* main, lines 225-235: one iteration of the scrape loop
ScrapeNext ==
    /\ pc = "scrape"
    /\ idx < Len(valid_urls)
    /\ LET total == Len(valid_urls)
           url == valid_urls[idx + 1]
       IN \E resp \in FetchOutcomes(url) :
            /\ results' = Append(results, scrape_images(url, resp))
            /\ log' = log \o <<GetEvent(url, resp.some)>>
                          \o (IF NeedsPause(idx, total)
                              THEN <<SleepEvent(rate_limit)>> ELSE <<>>)
            /\ idx' = idx + 1
            /\ pc' = IF idx + 1 = total THEN "scraped" ELSE "scrape"
    /\ UNCHANGED <<raw_urls, rate_limit, valid_urls, image_urls, zf, zidx, zip_bytes>>
    /\ UNCHANGED <<extractVars, nameVars>>

\* build_zip, lines 131-141: the task list, and the early return.  The
\* function is entered with whatever result list the scrape loop produced;
\* main (line 303) calls it only when some image was found.
BuildZipStart ==
    /\ pc = "scraped"
    /\ image_urls' = ImageTasks(results)
    /\ zf' = <<>>
    /\ zidx' = 0
    /\ zip_bytes' = NoZip
    /\ pc' = IF NoTasks(image_urls') THEN "done" ELSE "download"
    /\ UNCHANGED <<raw_urls, rate_limit, valid_urls, results, idx, log>>
    /\ UNCHANGED <<extractVars, nameVars>>

\* requests.get(img_url) of build_zip: success or a RequestException
DownloadOutcomes(u) == IF HasScheme(u) THEN BOOLEAN ELSE {FALSE}

\* a plausible slip: the failed download ends the loop
DownloadNext_aborts_on_failure ==
    /\ pc = "download"
    /\ zidx < Len(image_urls)
    /\ LET task == image_urls[zidx + 1]
           last == zidx + 1 = Len(image_urls)
       IN \E succeeded \in DownloadOutcomes(task.img_url) :
            /\ zf' = IF succeeded
                     THEN Append(zf, [name |-> _safe_filename(task.img_url, task.page_url, task.kind),
                                      task |-> zidx + 1])
                     ELSE zf
            /\ log' = log \o <<GetEvent(task.img_url, succeeded),
                               SleepEvent(IMAGE_DELAY_TENTHS)>>
            /\ zidx' = zidx + 1
            /\ zip_bytes' = IF last \/ ~succeeded THEN ZipOf(zf') ELSE NoZip
            /\ pc' = IF last \/ ~succeeded THEN "done" ELSE "download"
    /\ UNCHANGED <<raw_urls, rate_limit, valid_urls, results, idx, image_urls>>
    /\ UNCHANGED <<extractVars, nameVars>>

\* build_zip, lines 143-158: one iteration of the download loop; the last
\* one is followed by the return of the buffer
DownloadNext ==
    /\ pc = "download"
    /\ zidx < Len(image_urls)
    /\ LET task == image_urls[zidx + 1]
           last == zidx + 1 = Len(image_urls)
       IN \E succeeded \in DownloadOutcomes(task.img_url) :
            /\ zf' = IF succeeded
                     THEN Append(zf, [name |-> _safe_filename(task.img_url, task.page_url, task.kind),
                                      task |-> zidx + 1])
                     ELSE zf
            /\ log' = log \o <<GetEvent(task.img_url, succeeded),
                               SleepEvent(IMAGE_DELAY_TENTHS)>>
            /\ zidx' = zidx + 1
            /\ zip_bytes' = IF last THEN ZipOf(zf') ELSE NoZip
            /\ pc' = IF last THEN "done" ELSE "download"
    /\ UNCHANGED <<raw_urls, rate_limit, valid_urls, results, idx, image_urls>>
    /\ UNCHANGED <<extractVars, nameVars>>

Next == ValidateUrls \/ ScrapeNext \/ BuildZipStart \/ DownloadNext

Spec == Init /\ [][Next]_vars

---------------------------------------------------------------------------
(* Claims about the scrape loop and the packager, checked under Spec. *)

IsGet(e) == e.op = "get"
Gets == SelectSeq(log, IsGet)
\* the page fetches come first in the log, one per result
PageGets == SubSeq(Gets, 1, Len(results))
\* the image requests follow them
ImageGets == SubSeq(Gets, Len(results) + 1, Len(Gets))
Scraped == pc \in {"scraped", "download", "done"}

\* C1: the scrape loop ends with exactly one result per input URL, in input
\* order, repeated URLs kept apart; a failed fetch neither aborts the batch
\* nor drops, merges or reorders the other results.
C1_OneResultPerInputUrl ==
    /\ pc # "validate" =>
          /\ Len(results) = idx
          /\ Len(PageGets) = idx
          /\ \A i \in 1..Len(results) :
                /\ results[i].url = Normalize(raw_urls[i])
                /\ PageGets[i].url = results[i].url
    /\ Scraped => Len(results) = Len(raw_urls)

C1_Witness ==
    /\ pc = "scraped"
    /\ Len(results) = 3
    /\ results[1].status = "error"
    /\ results[2].status = "ok"
    /\ results[3].url = results[1].url

\* C2: a result has status error exactly when its page fetch failed, and
\* then carries neither image; a fetched page is ok whatever the extractors
\* find, and no result keeps the status pending.
C2_ErrorIffFetchFailed ==
    \A i \in 1..Len(results) :
        /\ results[i].status \in {"ok", "error"}
        /\ results[i].status = "error" <=> ~PageGets[i].ok
        /\ results[i].status = "error" =>
              results[i].hero_image = None /\ results[i].og_image = None

C2_Witness ==
    /\ pc = "scraped"
    /\ \E i, j \in 1..Len(results) :
          /\ results[i].status = "error"
          /\ results[j].status = "ok"
          /\ results[j].hero_image = None /\ results[j].og_image = None

\* C3: in a scrape of n URLs the log is fetch, pause, fetch, ..., fetch:
\* a pause of rate_limit follows every fetch but the last, failed or not,
\* so n-1 pauses happen and none follows the final fetch.
C3_PauseBetweenFetches ==
    pc \in {"scrape", "scraped"} =>
        /\ Len(log) = IF idx = Len(valid_urls) THEN 2 * idx - 1 ELSE 2 * idx
        /\ \A k \in 1..Len(log) :
              IF k % 2 = 1
              THEN log[k].op = "get" /\ log[k].url = valid_urls[(k + 1) \div 2]
              ELSE log[k] = SleepEvent(rate_limit)

C3_Witness ==
    /\ pc = "scraped"
    /\ Len(valid_urls) = 3
    /\ Len(log) = 5
    /\ ~log[1].ok /\ log[3].ok /\ ~log[5].ok
    /\ log[2].op = "sleep" /\ log[4].op = "sleep"

\* C4: a failed image download is skipped: every task is still attempted,
\* and the archive holds an entry for exactly the tasks whose download
\* succeeded, in task order, so it is non-empty once one succeeded.
C4_FailedDownloadsSkipped ==
    pc \in {"download", "done"} /\ image_urls # <<>> =>
        LET succeeded == {k \in 1..Len(ImageGets) : ImageGets[k].ok}
            written == IF pc = "done" THEN zip_bytes.entries ELSE zf
        IN /\ Len(ImageGets) = zidx
           /\ pc = "done" => zidx = Len(image_urls) /\ zip_bytes.some
           /\ \A k \in 1..Len(ImageGets) : ImageGets[k].url = image_urls[k].img_url
           /\ Len(written) = Cardinality(succeeded)
           /\ {written[e].task : e \in 1..Len(written)} = succeeded
           /\ \A e \in 1..(Len(written) - 1) : written[e].task < written[e + 1].task
           /\ (succeeded # {}) => written # <<>>

C4_Witness ==
    /\ pc = "done"
    /\ Len(image_urls) >= 3
    /\ ~ImageGets[1].ok /\ ImageGets[2].ok /\ ~ImageGets[3].ok
    /\ Len(zip_bytes.entries) = 1

\* C5: the url field of every result is prefixed by http:// or https://.
C5_UrlHasHttpScheme ==
    \A i \in 1..Len(results) : HasScheme(results[i].url)

\* C9: build_zip returns None exactly when the task list is empty, which is
\* when no result has a non-empty hero_image or og_image, and then requests
\* no image; with a task it returns a buffer whatever the downloads did.
C9_NoArchiveIffNoTasks ==
    pc \in {"download", "done"} =>
        /\ image_urls = <<>> <=>
              \A i \in 1..Len(results) :
                  ~Truthy(results[i].hero_image) /\ ~Truthy(results[i].og_image)
        /\ image_urls = <<>> <=> (pc = "done" /\ ~zip_bytes.some)
        /\ image_urls = <<>> => ImageGets = <<>>

C9_Witness ==
    /\ pc = "done"
    /\ ~zip_bytes.some
    /\ ImageGets = <<>>
    /\ \E i \in 1..Len(results) :
          results[i].status = "ok" /\ results[i].hero_image = None

---------------------------------------------------------------------------
(* extract_og_image on its own: every document of up to MaxMetas elements  *)
(* drawn from OgNodes.                                                     *)

OgNodes ==
    {Meta(0, Some(<<"o", "g", ":", "i", "m", "a", "g", "e">>), Some(<<"u", ".", "p", "n", "g">>)),
     Meta(0, Some(<<"o", "g", ":", "i", "m", "a", "g", "e">>), Some(<<" ", "v", ".", "p", "n", "g", " ">>)),
     Meta(0, Some(<<"o", "g", ":", "i", "m", "a", "g", "e">>), Some(<<>>)),
     Meta(0, Some(<<"o", "g", ":", "i", "m", "a", "g", "e">>), Some(<<" ", " ">>)),
     Meta(0, Some(<<"o", "g", ":", "i", "m", "a", "g", "e">>), None),
     Meta(0, Some(<<"o", "g", ":", "t", "i", "t", "l", "e">>), Some(<<"T">>)),
     Meta(0, Some(<<"o", "g", ":", "i", "m", "a", "g", "e", ":", "w", "i", "d", "t", "h">>), Some(<<"9">>)),
     Meta(0, None, Some(<<"w", ".", "p", "n", "g">>)),
     Div(0, None)}

InitOg ==
    /\ pc = "og_call"
    /\ soup \in SeqsUpTo(OgNodes, 0, MaxMetas)
    /\ raw_urls = <<>> /\ rate_limit = RATE_LIMIT_TENTHS /\ valid_urls = <<>>
    /\ results = <<>> /\ idx = 0 /\ log = <<>>
    /\ image_urls = <<>> /\ zf = <<>> /\ zidx = 0 /\ zip_bytes = NoZip
    /\ container = 0 /\ img = 0
    /\ hero_image = None /\ og_image = None
    /\ img_url = <<>> /\ page_url = <<>> /\ suffix = <<>> /\ fname = <<>>

\* a call of extract_og_image(soup)
ExtractOg ==
    /\ pc = "og_call"
    /\ og_image' = extract_og_image(soup)
    /\ pc' = "og_done"
    /\ UNCHANGED <<mainVars, nameVars, soup, container, img, hero_image>>

NextOg == ExtractOg

SpecOg == InitOg /\ [][NextOg]_vars

\* C6: og extraction returns the trimmed content of the first og:image meta
\* exactly when that value is non-empty after trimming, and absent in every
\* other case, so a returned og_image is never the empty string.
C6_OgNonEmptyAfterTrim ==
    pc = "og_done" =>
        LET tag == FindOgMeta(soup)
            trimmed == IF tag # 0 /\ soup[tag].content.some
                       THEN strip(soup[tag].content.v) ELSE <<>>
        IN /\ og_image = IF trimmed # <<>> THEN Some(trimmed) ELSE None
           /\ og_image # Some(<<>>)

---------------------------------------------------------------------------
(* extract_hero_image on its own: every well-formed document of up to      *)
(* MaxNodes div and img elements drawn from HeroDivClasses and HeroImgs.   *)

HeroDivClasses ==
    {Some(required_classes \o <<<<"e", "x", "t", "r", "a", "-", "t", "o", "k", "e", "n">>>>),
     Some(<<<<"x", "s", "_", "c", "o", "l">>, <<"c", "o", "l", "-", "m", "d", "-", "6">>, <<"d", "-", "m", "d", "-", "f", "l", "e", "x">>, <<"f", "l", "e", "x", "-", "c", "o", "l", "u", "m", "n">>, <<"a", "l", "i", "g", "n", "-", "i", "t", "e", "m", "s", "-", "m", "d", "-", "e", "n", "d">>>>),
     Some(<<<<"s", "_", "c", "o", "l">>, <<"c", "o", "l", "-", "m", "d", "-", "6">>>>),
     None}

HeroImgs ==
    {[class |-> Some(<<<<"n", "o", "_", "l", "a", "z", "y">>, <<"d", "-", "n", "o", "n", "e">>>>), src |-> Some(<<" ", "a", ".", "j", "p", "g", " ">>)],
     [class |-> Some(<<<<"n", "o", "_", "l", "a", "z", "y">>>>), src |-> None],
     [class |-> Some(<<<<"n", "o", "_", "l", "a", "z", "y", "_", "o", "f", "f">>>>), src |-> Some(<<"b", ".", "j", "p", "g">>)],
     [class |-> None, src |-> Some(<<"c", ".", "j", "p", "g">>)]}

HeroNodes(maxDepth) ==
    {Div(d, c) : d \in 0..maxDepth, c \in HeroDivClasses}
    \cup {Img(d, i.class, i.src) : d \in 0..maxDepth, i \in HeroImgs}

\* the elements that may follow element `last` in document order: at most
\* one level deeper, and deeper only below a div (an img has no children)
Successors(last) ==
    HeroNodes(IF last.tag = "div" THEN last.depth + 1 ELSE last.depth)

RECURSIVE HeroDocs(_)
HeroDocs(n) ==
    IF n = 0 THEN {<<>>}
    ELSE IF n = 1 THEN {<<x>> : x \in HeroNodes(0)}
    ELSE UNION {{Append(d, x) : x \in Successors(d[Len(d)])} : d \in HeroDocs(n - 1)}

InitHero ==
    /\ pc = "hero_call"
    /\ soup \in UNION {HeroDocs(n) : n \in 0..MaxNodes}
    /\ raw_urls = <<>> /\ rate_limit = RATE_LIMIT_TENTHS /\ valid_urls = <<>>
    /\ results = <<>> /\ idx = 0 /\ log = <<>>
    /\ image_urls = <<>> /\ zf = <<>> /\ zidx = 0 /\ zip_bytes = NoZip
    /\ container = 0 /\ img = 0
    /\ hero_image = None /\ og_image = None
    /\ img_url = <<>> /\ page_url = <<>> /\ suffix = <<>> /\ fname = <<>>

\* a call of extract_hero_image(soup); container and img are the locals of
\* strategy 1
ExtractHero ==
    /\ pc = "hero_call"
    /\ container' = Strategy1Container(soup)
    /\ img' = Strategy1Img(soup)
    /\ hero_image' = extract_hero_image(soup)
    /\ pc' = "hero_done"
    /\ UNCHANGED <<mainVars, nameVars, soup, og_image>>

NextHero == ExtractHero

SpecHero == InitHero /\ [][NextHero]_vars

\* whole-token membership in a class token list
HasToken(cls, t) == cls.some /\ \E k \in 1..Len(cls.v) : cls.v[k] = t

HasAllMarkerTokens(cls) ==
    \A r \in 1..Len(required_classes) : HasToken(cls, required_classes[r])

\* the first div, in document order, holding all five marker tokens
TokenContainer(doc) ==
    LET hits == {i \in 1..Len(doc) :
                    doc[i].tag = "div" /\ HasAllMarkerTokens(doc[i].class)}
    IN IF hits = {} THEN 0 ELSE MinOf(hits)

\* the first img below element c holding the token no_lazy
TokenNoLazyImg(doc, c) ==
    LET hits == {i \in Descendants(doc, c) :
                    doc[i].tag = "img" /\ HasToken(doc[i].class, <<"n", "o", "_", "l", "a", "z", "y">>)}
    IN IF hits = {} THEN 0 ELSE MinOf(hits)

\* C7: strategy 1 takes as container the first div whose class token list
\* holds each of the five marker tokens as a whole token, and within it the
\* first img whose class token list holds the token no_lazy.
C7_ContainerByWholeTokens ==
    pc = "hero_done" =>
        /\ container = TokenContainer(soup)
        /\ img = IF TokenContainer(soup) = 0 THEN 0
                 ELSE TokenNoLazyImg(soup, TokenContainer(soup))

\* strategy 1 yields a value: a container, a no_lazy img in it, with a src
PrimaryYields == container # 0 /\ img # 0 /\ Truthy(soup[img].src)

\* a document on which matching by substring and matching by whole token
\* select the same elements
SubstringIsToken(doc) ==
    \A i \in 1..Len(doc) :
        /\ ClassMatches("container", doc[i].class) <=> HasAllMarkerTokens(doc[i].class)
        /\ ClassMatches("s_col", doc[i].class) <=> HasToken(doc[i].class, <<"s", "_", "c", "o", "l">>)
        /\ ClassMatches("no_lazy", doc[i].class) <=> HasToken(doc[i].class, <<"n", "o", "_", "l", "a", "z", "y">>)

\* C8 as stated: with a five-token container present the returned hero
\* image is the one strategy 1 finds in that container, or absent.  (Stated
\* on the documents where substring and whole-token matching agree, so that
\* the container is a five-token container in both readings.)
C8_NoFallbackWithContainer ==
    pc = "hero_done" /\ SubstringIsToken(soup) /\ container # 0 =>
        \/ hero_image = None
        \/ PrimaryYields /\ hero_image = Some(strip(soup[img].src.v))

\* an s_col div whose first no_lazy img has a src: what strategy 2 accepts
FallbackHit(doc, d) ==
    /\ doc[d].tag = "div"
    /\ ClassMatches("s_col", doc[d].class)
    /\ \E i \in Descendants(doc, d) :
          /\ doc[i].tag = "img" /\ ClassMatches("no_lazy", doc[i].class)
          /\ \A j \in Descendants(doc, d) :
                doc[j].tag = "img" /\ ClassMatches("no_lazy", doc[j].class) => i <= j
          /\ Truthy(doc[i].src)

FallbackValue(doc, d) ==
    LET i == MinOf({j \in Descendants(doc, d) :
                       doc[j].tag = "img" /\ ClassMatches("no_lazy", doc[j].class)})
    IN Some(strip(doc[i].src.v))

\* C8 amended: the fallback decides only when strategy 1 yields nothing (no
\* container, no no_lazy img in it, or no src on that img); when strategy 1
\* yields a value, that value is returned.
C8_FallbackOnlyWhenPrimaryYieldsNothing ==
    pc = "hero_done" =>
        /\ PrimaryYields => hero_image = Some(strip(soup[img].src.v))
        /\ ~PrimaryYields =>
              IF \E d \in 1..Len(soup) : FallbackHit(soup, d)
              THEN \E d \in 1..Len(soup) :
                      /\ FallbackHit(soup, d)
                      /\ \A e \in 1..(d - 1) : ~FallbackHit(soup, e)
                      /\ hero_image = FallbackValue(soup, d)
              ELSE hero_image = None

C8_Witness ==
    /\ pc = "hero_done"
    /\ SubstringIsToken(soup)
    /\ container # 0
    /\ ~PrimaryYields
    /\ hero_image.some

---------------------------------------------------------------------------
(* _safe_filename on its own: page URLs whose last path segment is every   *)
(* string of up to MaxSeg characters of SegChars.                          *)

SegChars == {"a", "Z", "7", "_", "-", ".", "é", "%"}
PagePrefixes == {<<"h", "t", "t", "p", "s", ":", "/", "/", "x", ".", "i", "o", "/">>, <<"h", "t", "t", "p", "s", ":", "/", "/", "x", ".", "i", "o", "/", "d", "/">>}
PageTails == {<<>>, <<"/">>, <<"?", "q", "=", "1">>}
ImgUrlChoices == {<<"h", "t", "t", "p", "s", ":", "/", "/", "c", ".", "i", "o", "/", "i", "/", "h", ".", "p", "n", "g">>, <<"h", "t", "t", "p", "s", ":", "/", "/", "c", ".", "i", "o", "/", "o", ".", "j", "p", "g", "?", "w", "=", "9">>, <<"h", "t", "t", "p", "s", ":", "/", "/", "c", ".", "i", "o", "/">>}
Kinds == {<<"h", "e", "r", "o">>, <<"o", "g">>}

InitName ==
    /\ pc = "name_call"
    /\ \E pre \in PagePrefixes, seg \in SeqsUpTo(SegChars, 0, MaxSeg), tail \in PageTails :
          page_url = pre \o seg \o tail
    /\ img_url \in ImgUrlChoices
    /\ suffix \in Kinds
    /\ fname = <<>>
    /\ raw_urls = <<>> /\ rate_limit = RATE_LIMIT_TENTHS /\ valid_urls = <<>>
    /\ results = <<>> /\ idx = 0 /\ log = <<>>
    /\ image_urls = <<>> /\ zf = <<>> /\ zidx = 0 /\ zip_bytes = NoZip
    /\ soup = <<>> /\ container = 0 /\ img = 0
    /\ hero_image = None /\ og_image = None

\* a call of _safe_filename(img_url, page_url, suffix)
SafeFilename ==
    /\ pc = "name_call"
    /\ fname' = _safe_filename(img_url, page_url, suffix)
    /\ pc' = "name_done"
    /\ UNCHANGED <<mainVars, extractVars, img_url, page_url, suffix>>

NextName == SafeFilename

SpecName == InitName /\ [][NextName]_vars

\* the characters of [A-Za-z0-9_-]
AsciiSlugChars == AsciiLower \cup AsciiUpper \cup AsciiDigit \cup {"_", "-"}

\* every character outside [A-Za-z0-9_-] replaced by "_"
AsciiSlug(s) ==
    IF s = <<>> THEN <<>>
    ELSE [i \in 1..Len(s) |-> IF s[i] \in AsciiSlugChars THEN s[i] ELSE "_"]

OtherKind(k) == IF k = <<"h", "e", "r", "o">> THEN <<"o", "g">> ELSE <<"h", "e", "r", "o">>

\* C10: an entry is named <page-slug>__<kind>__<image-name>: image-name is
\* the last path segment of the image URL (or image), page-slug the last
\* path segment of the page URL (or page) with every character outside
\* [A-Za-z0-9_-] replaced by "_"; the hero and the og entry of one page
\* therefore differ in name.
C10_EntryNameAsciiSlug ==
    pc = "name_done" =>
        /\ fname = AsciiSlug(OrDefault(PathName(UrlPath(page_url)), <<"p", "a", "g", "e">>))
                   \o <<"_", "_">> \o suffix \o <<"_", "_">>
                   \o OrDefault(PathName(UrlPath(img_url)), <<"i", "m", "a", "g", "e">>)
        /\ \A other \in ImgUrlChoices :
              _safe_filename(other, page_url, OtherKind(suffix)) # fname

====
